---- MODULE Spec2Model ----
(***************************************************************************)
(* DependencyGraph of metro (src/unnamed/part_000): the orchestrator that  *)
(* owns the registry snapshot (_hasteFS), the per-directory file index,    *)
(* the asset resolution cache, the module cache, the haste module map and  *)
(* the ModuleResolver configuration, rebuilds them on every 'change' of    *)
(* the haste map, and answers resolveDependency / getSha1 / getHasteName.  *)
(*                                                                         *)
(* Paths are sequences of segments, a segment is the sequence of the       *)
(* dot-separated parts of a name: /r/foo.ios.js is                         *)
(*   << <<"/">>, <<"r">>, <<"foo","ios","js">> >>                          *)
(* The empty path stands for '.' (and for the '' that path.parse gives a   *)
(* bare file name).                                                        *)
(***************************************************************************)
EXTENDS Integers, Sequences, FiniteSets, TLC

VARIABLES
    haste,                \* this._haste: the haste map, with the crawl it delivered last
    hasteFS,              \* this._hasteFS: the registry snapshot
    filesByDirNameIndex,  \* this._filesByDirNameIndex
    assetResolutionCache, \* this._assetResolutionCache (memoized entries)
    moduleMap,            \* this._moduleMap
    moduleResolver,       \* this._moduleResolver (what the closure captured)
    moduleCache,          \* this._moduleCache (entries by path)
    disk,                 \* the file system read by fs.realpathSync/readFileSync
    changes,              \* number of 'change' notifications of the haste map
    emitted,              \* number of 'change' emissions of the DependencyGraph
    lastOp,               \* the operation that ran last
    lastChange,           \* the notification handled last and what its subscriber saw
    lastResolve,          \* the resolveDependency call made last, with its outcome
    lastSha1,             \* the getSha1 call made last, with its outcome
    closest,              \* the _getClosestPackage call in progress or made last
    lastName              \* the getHasteName call made last, with its outcome

vars == <<haste, hasteFS, filesByDirNameIndex, assetResolutionCache, moduleMap,
          moduleResolver, moduleCache, disk, changes, emitted, lastOp,
          lastChange, lastResolve, lastSha1, closest, lastName>>

--------------------------------------------------------------------------
(* Bounds of the model *)

\* change notifications delivered in one behaviour
MaxChanges == 2
\* events in one notification
MaxEvents == 1
\* iterations of the loop of _getClosestPackage in one call
MaxWalk == 4

--------------------------------------------------------------------------
(* Paths (node's path module, as far as DependencyGraph uses it) *)

ROOT == <<"/">>
NULL == "null"
NoPath == <<>>

\* path.dirname: '/' stays '/', a single relative segment gives '.'
Dirname(p) ==
    IF Len(p) = 0 THEN <<>>
    ELSE IF p = <<ROOT>> THEN p
    ELSE SubSeq(p, 1, Len(p) - 1)

\* the number of leading segments two paths share
RECURSIVE CommonPrefix(_, _)
CommonPrefix(p, q) ==
    IF Len(p) = 0 \/ Len(q) = 0 \/ p[1] # q[1] THEN 0
    ELSE 1 + CommonPrefix(Tail(p), Tail(q))

\* path.relative(from, to) of two absolute paths: one '..' for every segment
\* of `from` below the shared directory, then the rest of `to`
Relative(from, to) ==
    LET k == CommonPrefix(from, to)
    IN  [i \in 1..(Len(from) - k) |-> <<"..">>] \o SubSeq(to, k + 1, Len(to))

\* path.basename
Basename(p) == p[Len(p)]

\* path.join(dir, name)
Join(dir, name) == Append(dir, name)

\* the name with `parts` appended after a dot: foo + <<"ios","js">> = foo.ios.js
WithSuffix(p, parts) == [p EXCEPT ![Len(p)] = @ \o parts]

\* path.extname of the last segment ("" when there is no dot)
Extname(p) ==
    LET b == Basename(p) IN IF Len(b) > 1 THEN b[Len(b)] ELSE ""

--------------------------------------------------------------------------
(* Configuration handed to the constructor: the config.resolver fields *)

SourceExts == <<"js", "ts">>
AssetExts == {"png"}
Platforms == {"ios", "android"}

--------------------------------------------------------------------------
(* The files the haste map may track, and the inputs of the model *)

RDIR == <<ROOT, <<"r">>>>
LIBDIR == Join(RDIR, <<"lib">>)
A_JS == Join(RDIR, <<"a", "js">>)
FOO_JS == Join(RDIR, <<"foo", "js">>)
IMG_PNG == Join(RDIR, <<"img", "png">>)
BAR_JS == Join(LIBDIR, <<"Bar", "js">>)
LINK_JS == Join(RDIR, <<"link", "js">>)
NOPE_JS == Join(RDIR, <<"nope", "js">>)
PACKAGE_JSON == <<"package", "json">>
ROOT_PKG == Join(<<ROOT>>, PACKAGE_JSON)
R_PKG == Join(RDIR, PACKAGE_JSON)
LIB_PKG == Join(LIBDIR, PACKAGE_JSON)
X_JS == <<"x", "js">>
FOO_IOS_JS == Join(RDIR, <<"foo", "ios", "js">>)
FOO_NATIVE_JS == Join(RDIR, <<"foo", "native", "js">>)
FOO_IOS_TS == Join(RDIR, <<"foo", "ios", "ts">>)
EXTRADIR == Join(RDIR, <<"extra">>)
EXTRA_PKG_JS == Join(EXTRADIR, <<"pkg", "js">>)
NM_PKG_JS == Join(Join(RDIR, <<"node_modules">>), <<"pkg", "js">>)

\* config.resolver.extraNodeModules: {pkg: '/r/extra/pkg'}
ExtraNodeModules == {[name |-> "pkg", path |-> Join(EXTRADIR, <<"pkg">>)]}

\* the files the crawls of the resolution behaviours may track
Universe == {A_JS, FOO_JS, IMG_PNG, BAR_JS}
\* the files the crawls of the hash behaviours may track
UniverseSha1 == {A_JS, FOO_JS}
\* the files the crawls of the platform behaviours may track
UniversePlatform == {FOO_JS, FOO_IOS_JS, FOO_NATIVE_JS, FOO_IOS_TS}
\* the files the crawls of the redirect behaviours may track
UniverseRedirect == {FOO_JS, BAR_JS, EXTRA_PKG_JS, NM_PKG_JS}
\* the files the crawls of the name behaviours may track
UniverseName == {A_JS, BAR_JS}
\* the manifests the crawls of the package behaviours may track
UniversePkg == {ROOT_PKG, R_PKG, LIB_PKG}

\* the @providesModule name the haste implementation gives a file ("" for none)
HasteNameOf(f) == IF f = BAR_JS THEN "Bar" ELSE ""

Contents == {"v1", "v2"}
Absent == "absent"
NoSha1 == NULL

\* crypto.createHash('sha1').update(content).digest('hex')
Sha1Hex(content) == "sha1(" \o content \o ")"

\* a specifier: "./x/y" is kind "rel" with segments x, y; "x/y" is kind "bare"
Rel(segs) == [kind |-> "rel", segs |-> segs]
Bare(segs) == [kind |-> "bare", segs |-> segs]


Call(from, to, platform) == [call |-> TRUE, from |-> from, to |-> to, platform |-> platform]

\* the resolveDependency calls of the model
Calls ==
    { Call(A_JS, Rel(<< <<"foo">> >>), NULL),
      Call(A_JS, Rel(<< <<"img", "png">> >>), NULL),
      Call(A_JS, Bare(<< <<"Bar">> >>), NULL) }

--------------------------------------------------------------------------
(* The registry snapshot: what jest-haste-map hands over as hasteFS and    *)
(* moduleMap.  gen numbers the notification that delivered the object.     *)

\* hasteFS.exists(path)
Exists(fs, p) == p \in fs.files

\* hasteFS.getModuleName(path): the haste name recorded for a tracked file,
\* null for a file without one and for a path that is not tracked
GetModuleName(fs, p) ==
    IF p \in fs.files /\ HasteNameOf(p) # "" THEN HasteNameOf(p) ELSE NULL

\* hasteFS.getSha1(path): the recorded hash, or null
GetSha1Of(fs, p) == IF p \in DOMAIN fs.sha1 THEN fs.sha1[p] ELSE NoSha1

\* the module map built over the same crawl: name -> path
ModuleMapOf(gen, files) ==
    [gen |-> gen,
     names |-> { <<HasteNameOf(f), f>> : f \in {x \in files : HasteNameOf(x) # ""} }]

\* moduleMap.getModule(name, platform)
MapGetModule(mm, name) ==
    IF \E e \in mm.names : e[1] = name
    THEN (CHOOSE e \in mm.names : e[1] = name)[2]
    ELSE NoPath

\* the recorded hashes a crawl may deliver: every tracked file has the hash
\* of its content but FOO_JS, which has one of `fooHashes` (the hash of some
\* content of it, or none: not computed)
SnapshotSha1s(files, fooHashes) ==
    { [f \in files |-> IF f = FOO_JS THEN h ELSE Sha1Hex("v1")] :
        h \in IF FOO_JS \in files THEN fooHashes ELSE {NoSha1} }

\* the snapshots a crawl may deliver over the file sets `fileSets`
Snapshots(gen, fileSets, fooHashes) ==
    UNION { { [gen |-> gen, files |-> fl, sha1 |-> sh] : sh \in SnapshotSha1s(fl, fooHashes) } :
            fl \in fileSets }

--------------------------------------------------------------------------
(* FilesByDirNameIndex: directory -> base names of the files directly in it *)

\* new FilesByDirNameIndex(allFilePaths)
FilesByDirNameIndex(gen, files) ==
    [gen |-> gen,
     byDir |-> [d \in {Dirname(f) : f \in files} |->
                  {Basename(f) : f \in {x \in files : Dirname(x) = d}}]]

\* index.getAllFiles(dirPath): empty for a directory that tracks nothing
IndexGetAllFiles(index, dir) ==
    IF dir \in DOMAIN index.byDir THEN index.byDir[dir] ELSE {}

--------------------------------------------------------------------------
(* AssetResolutionCache: memoized per (directory, asset name, platform) *)

AssetKey(dir, name, platform) == [dir |-> dir, name |-> name, platform |-> platform]

\* a file name img.png or img.ios.png taken apart: name, platform, extension
ParseAsset(b) ==
    IF Len(b) >= 3 /\ b[Len(b) - 1] \in Platforms
    THEN [name |-> SubSeq(b, 1, Len(b) - 2) \o <<b[Len(b)]>>, platform |-> b[Len(b) - 1]]
    ELSE [name |-> b, platform |-> NULL]

\* the lookup behind a miss: the files of the directory that are assets named
\* `name`, the one with the asked platform first, the platform-agnostic next
FindAsset(dirFiles, name, platform) ==
    LET assets == {b \in dirFiles : Len(b) > 1 /\ b[Len(b)] \in AssetExts}
        named == {b \in assets : ParseAsset(b).name = name}
        exact == {b \in named : platform # NULL /\ ParseAsset(b).platform = platform}
        plain == {b \in named : ParseAsset(b).platform = NULL}
    IN  IF exact # {} THEN [found |-> TRUE, file |-> CHOOSE b \in exact : TRUE]
        ELSE IF plain # {} THEN [found |-> TRUE, file |-> CHOOSE b \in plain : TRUE]
        ELSE [found |-> FALSE, file |-> <<>>]

--------------------------------------------------------------------------
(* ModuleCache: one entry per path, created on first access *)

\* moduleCache.getModule(path): the entry, created at time `now` when missing
CacheGetModule(cache, p, now) ==
    IF p \in DOMAIN cache THEN cache
    ELSE [q \in DOMAIN cache \cup {p} |-> IF q = p THEN [created |-> now] ELSE cache[q]]

\* moduleCache.processFileChange(type, filePath): the entry is dropped
ProcessFileChange(cache, type, p) ==
    [q \in DOMAIN cache \ {p} |-> cache[q]]

--------------------------------------------------------------------------
(* DependencyGraph.  `g` is the object: a record of its fields, with the   *)
(* clock `changes` (notifications begun) and `emitted` ('change' events    *)
(* sent to the subscribers of the graph).                                  *)

\* _doesFileExist: reads this._hasteFS when called
DoesFileExist(g, p) == Exists(g.hasteFS, p)

\* the getDirFiles closure of the constructor: reads this._filesByDirNameIndex
\* when called
GetDirFiles(g, dir) == IndexGetAllFiles(g.filesByDirNameIndex, dir)

\* dirExists of _createModuleResolver: fs.lstatSync(filePath).isDirectory()
DirExists(p) == p \in {<<ROOT>>, RDIR, LIBDIR}

\* isAssetFile of _createModuleResolver: helpers.isAssetFile
IsAssetFile(p) == Len(p) > 0 /\ Extname(p) \in AssetExts

\* resolveAsset of _createModuleResolver: the memoized entry, or the lookup
\* through getDirFiles that a miss makes
ResolveAsset(g, dir, name, platform) ==
    LET key == AssetKey(dir, name, platform)
    IN  IF key \in DOMAIN g.assetResolutionCache
        THEN g.assetResolutionCache[key]
        ELSE LET r == FindAsset(GetDirFiles(g, dir), name, platform)
             IN  [found |-> r.found, file |-> r.file, gen |-> g.filesByDirNameIndex.gen]

\* the calls of getDirFiles that resolveAsset makes: one on a miss
DirListings(g, dir, name, platform) ==
    IF AssetKey(dir, name, platform) \in DOMAIN g.assetResolutionCache THEN 0 ELSE 1

\* a cache that answers a miss and keeps no entry of it
AssetCacheAfterForget(g, dir, name, platform) == g.assetResolutionCache

\* the cache after resolveAsset: a miss stores its entry
AssetCacheAfter(g, dir, name, platform) ==
    LET key == AssetKey(dir, name, platform)
        c == g.assetResolutionCache
    IN  IF key \in DOMAIN c THEN c
        ELSE [k \in DOMAIN c \cup {key} |->
                IF k = key THEN ResolveAsset(g, dir, name, platform) ELSE c[k]]

--------------------------------------------------------------------------
(* ModuleResolver: specifier -> path *)

\* the candidates of one source extension: platform-qualified, native, bare
ExtCandidates(cand, platform, ext) ==
    (IF platform # NULL THEN <<WithSuffix(cand, <<platform, ext>>)>> ELSE <<>>)
    \o <<WithSuffix(cand, <<"native", ext>>), WithSuffix(cand, <<ext>>)>>

RECURSIVE SourceCandidates(_, _, _)
\* the candidates of the source extensions from the i-th on, in configured order
SourceCandidates(cand, platform, i) ==
    IF i > Len(SourceExts) THEN <<>>
    ELSE ExtCandidates(cand, platform, SourceExts[i]) \o SourceCandidates(cand, platform, i + 1)

RECURSIVE FirstExisting(_, _, _)
\* the first path of `cands`, from the i-th on, that doesFileExist accepts
FirstExisting(g, cands, i) ==
    IF i > Len(cands) THEN NoPath
    ELSE IF DoesFileExist(g, cands[i]) THEN cands[i]
    ELSE FirstExisting(g, cands, i + 1)

\* a candidate path as a source file: the exact path, else the extensions
ResolveSourceFile(g, cand, platform) ==
    IF DoesFileExist(g, cand) THEN cand
    ELSE FirstExisting(g, SourceCandidates(cand, platform, 1), 1)

\* a candidate path: an asset name goes to resolveAsset; else the file; else,
\* for a directory, its index file
ResolveCandidate(g, cand, platform) ==
    IF IsAssetFile(cand)
    THEN LET r == ResolveAsset(g, Dirname(cand), Basename(cand), platform)
         IN  IF r.found THEN Join(Dirname(cand), r.file) ELSE NoPath
    ELSE LET f == ResolveSourceFile(g, cand, platform)
         IN  IF f # NoPath THEN f
             ELSE IF DirExists(cand)
             THEN ResolveSourceFile(g, Join(cand, <<"index">>), platform)
             ELSE NoPath

RECURSIVE NodeModulesWalk(_, _, _, _)
\* the upward walk: dir/node_modules/<specifier> at each ancestor, up to the root
NodeModulesWalk(g, dir, segs, platform) ==
    LET r == ResolveCandidate(g, Join(dir, <<"node_modules">>) \o segs, platform)
    IN  IF r # NoPath THEN r
        ELSE IF Dirname(dir) = dir \/ Len(dir) = 0 THEN NoPath
        ELSE NodeModulesWalk(g, Dirname(dir), segs, platform)

\* the extra-redirect table applied to a bare specifier: the base path of the
\* entry named like its first segment with the other segments appended,
\* NoPath when no entry matches
Redirect(table, segs) ==
    IF \E e \in table : segs[1] = <<e.name>>
    THEN (CHOOSE e \in table : segs[1] = <<e.name>>).path \o Tail(segs)
    ELSE NoPath

\* ModuleResolver.resolveDependency(fromModule, to, platform): the path, or
\* NoPath for the module-not-found failure.  A bare specifier goes through
\* the redirect table the resolver was constructed with when an entry
\* matches; else the haste name is looked up in the moduleMap the resolver was
\* constructed with; else the node_modules directories are walked.
ResolverResolve(g, from, to, platform) ==
    IF to.kind = "rel"
    THEN ResolveCandidate(g, Dirname(from) \o to.segs, platform)
    ELSE LET redirected == Redirect(g.moduleResolver.extraNodeModules, to.segs)
             byName == IF Len(to.segs) = 1 /\ Len(to.segs[1]) = 1
                       THEN MapGetModule(g.moduleResolver.moduleMap, to.segs[1][1])
                       ELSE NoPath
         IN  IF redirected # NoPath
             THEN ResolveCandidate(g, redirected, platform)
             ELSE IF byName # NoPath /\ ResolveSourceFile(g, byName, platform) # NoPath
             THEN ResolveSourceFile(g, byName, platform)
             ELSE NodeModulesWalk(g, Dirname(from), to.segs, platform)

\* the asset cache after the resolver ran: only a relative asset specifier
\* reaches resolveAsset
ResolverCacheAfter(g, from, to, platform) ==
    LET cand == Dirname(from) \o to.segs
    IN  IF to.kind = "rel" /\ IsAssetFile(cand)
        THEN AssetCacheAfter(g, Dirname(cand), Basename(cand), platform)
        ELSE g.assetResolutionCache

\* the calls of getDirFiles the resolver makes for one specifier
ResolverDirListings(g, from, to, platform) ==
    LET cand == Dirname(from) \o to.segs
    IN  IF to.kind = "rel" /\ IsAssetFile(cand)
        THEN DirListings(g, Dirname(cand), Basename(cand), platform)
        ELSE 0

--------------------------------------------------------------------------
(* DependencyGraph: construction and the public queries *)

NoCall == [call |-> FALSE, from |-> NoPath, to |-> Rel(<<>>), platform |-> NULL]
NoError == [thrown |-> FALSE, from |-> NoPath, to |-> Rel(<<>>), platform |-> NULL]

\* what resolveDependency throws for the outcome `path` of the resolver: the
\* module-not-found error, with the entryPath and the platform the request
\* was constructed with (lines 211 and 213) and the specifier of line 217
UnableToResolve(path, from, to, platform) ==
    IF path = NoPath
    THEN [thrown |-> TRUE, from |-> from, to |-> to, platform |-> platform]
    ELSE NoError
NoOutcome ==
    [call |-> NoCall, ok |-> FALSE, path |-> NoPath,
     obs |-> [fs |-> 0, index |-> 0, map |-> 0, cache |-> {}], listings |-> 0,
     error |-> NoError]

\* a _createModuleResolver that keeps the resolver it finds
CreateModuleResolverKeep(g) == g

\* a _createModuleResolver that forgets line 159
CreateModuleResolverNoExtra(g) ==
    [g EXCEPT !.moduleResolver = [moduleMap |-> g.moduleMap, extraNodeModules |-> {}]]

\* _createModuleResolver: the closures read the graph when called; moduleMap
\* is the value of this._moduleMap at construction of the resolver, and
\* extraNodeModules that of the configuration
CreateModuleResolver(g) ==
    [g EXCEPT !.moduleResolver = [moduleMap |-> g.moduleMap,
                                  extraNodeModules |-> ExtraNodeModules]]

\* constructor({config, haste, initialHasteFS, initialModuleMap})
Constructor(initialHasteFS, initialModuleMap) ==
    CreateModuleResolver(
        [hasteFS |-> initialHasteFS,
         filesByDirNameIndex |-> FilesByDirNameIndex(initialHasteFS.gen, initialHasteFS.files),
         assetResolutionCache |-> << >>,
         moduleMap |-> initialModuleMap,
         moduleResolver |-> [moduleMap |-> initialModuleMap, extraNodeModules |-> {}],
         moduleCache |-> << >>,
         changes |-> 0,
         emitted |-> 0,
         seen |-> NoOutcome])

\* the generations of the objects a resolveDependency call works on
Observed(g, cache) ==
    [fs |-> g.hasteFS.gen,
     index |-> g.filesByDirNameIndex.gen,
     map |-> g.moduleResolver.moduleMap.gen,
     cache |-> {cache[k].gen : k \in DOMAIN cache}]

\* a resolveDependency that evicts the origin's module when the resolution fails
ResolveDependencyEvict(g, from, to, platform) ==
    LET path == ResolverResolve(g, from, to, platform)
        after == [g EXCEPT !.moduleCache =
                               IF path = NoPath
                               THEN ProcessFileChange(g.moduleCache, "delete", from)
                               ELSE CacheGetModule(g.moduleCache, from, g.changes),
                           !.assetResolutionCache = ResolverCacheAfter(g, from, to, platform)]
    IN  [g |-> after,
          out |-> [call |-> Call(from, to, platform), ok |-> path # NoPath, path |-> path,
                  obs |-> Observed(g, after.assetResolutionCache),
                  listings |-> ResolverDirListings(g, from, to, platform),
                  error |-> UnableToResolve(path, from, to, platform)]]

\* a resolveDependency that answers a failure of the resolver with the path
\* the specifier names
ResolveDependencyBestEffort(g, from, to, platform) ==
    LET path == ResolverResolve(g, from, to, platform)
        after == [g EXCEPT !.moduleCache = CacheGetModule(g.moduleCache, from, g.changes),
                           !.assetResolutionCache = ResolverCacheAfter(g, from, to, platform)]
    IN  [g |-> after,
         out |-> [call |-> Call(from, to, platform),
                  ok |-> TRUE,
                  path |-> IF path = NoPath THEN Dirname(from) \o to.segs ELSE path,
                  obs |-> Observed(g, after.assetResolutionCache),
                  listings |-> ResolverDirListings(g, from, to, platform),
                  error |-> NoError]]

\* a resolveDependency that hands no platform to the request
ResolveDependencyNoPlatform(g, from, to, platform) ==
    LET path == ResolverResolve(g, from, to, NULL)
        after == [g EXCEPT !.moduleCache = CacheGetModule(g.moduleCache, from, g.changes),
                           !.assetResolutionCache = ResolverCacheAfter(g, from, to, NULL)]
    IN  [g |-> after,
         out |-> [call |-> Call(from, to, platform),
                  ok |-> path # NoPath,
                  path |-> path,
                  obs |-> Observed(g, after.assetResolutionCache),
                  listings |-> ResolverDirListings(g, from, to, NULL),
                  error |-> UnableToResolve(path, from, to, platform)]]

\* resolveDependency(from, to, platform): the graph after the call and the
\* outcome (ok with the path, or the failure of the resolver), with the
\* generations of the objects the call worked on
ResolveDependency(g, from, to, platform) ==
    LET path == ResolverResolve(g, from, to, platform)
        after == [g EXCEPT !.moduleCache = CacheGetModule(g.moduleCache, from, g.changes),
                           !.assetResolutionCache = ResolverCacheAfter(g, from, to, platform)]
    IN  [g |-> after,
         out |-> [call |-> Call(from, to, platform),
                  ok |-> path # NoPath,
                  path |-> path,
                  obs |-> Observed(g, after.assetResolutionCache),
                  listings |-> ResolverDirListings(g, from, to, platform),
                  error |-> UnableToResolve(path, from, to, platform)]]

\* fs.realpathSync: the target of a symbolic link, the path itself for a file
\* or directory that exists, NoPath for the ENOENT failure
Realpath(d, p) ==
    LET target == IF p = LINK_JS THEN FOO_JS ELSE p
    IN  IF DirExists(target) THEN target
        ELSE IF target \in DOMAIN d /\ d[target] # Absent THEN target
        ELSE NoPath

NoSha1Outcome ==
    [filename |-> NoPath, ok |-> FALSE, sha1 |-> NoSha1, error |-> "",
     resolvedPath |-> NoPath, recorded |-> NoSha1, readFile |-> FALSE]

\* a getSha1 that asks the registry about the path as given
Sha1LookupByFilename(g, filename, resolvedPath) == GetSha1Of(g.hasteFS, filename)

\* getSha1, line 186: the recorded hash is looked up under the real path
Sha1Lookup(g, filename, resolvedPath) == GetSha1Of(g.hasteFS, resolvedPath)

\* a getSha1 that reaches the throw of line 194
Sha1RecomputeThrow(d, filename, resolvedPath) ==
    [ok |-> FALSE, sha1 |-> NoSha1, error |-> "SHA-1 is not computed", readFile |-> FALSE]

\* getSha1, lines 188-195: without a recorded hash the file is read and hashed;
\* readFileSync fails on a directory
Sha1Recompute(d, filename, resolvedPath) ==
    IF DirExists(resolvedPath)
    THEN [ok |-> FALSE, sha1 |-> NoSha1, error |-> "EISDIR", readFile |-> TRUE]
    ELSE [ok |-> TRUE, sha1 |-> Sha1Hex(d[resolvedPath]), error |-> "", readFile |-> TRUE]

\* getSha1(filename)
GetSha1(g, d, filename) ==
    LET resolvedPath == Realpath(d, filename)
        sha1 == Sha1Lookup(g, filename, resolvedPath)
        r == IF resolvedPath = NoPath
             THEN [ok |-> FALSE, sha1 |-> NoSha1, error |-> "ENOENT", readFile |-> FALSE]
             ELSE IF sha1 = NoSha1
             THEN Sha1Recompute(d, filename, resolvedPath)
             ELSE [ok |-> TRUE, sha1 |-> sha1, error |-> "", readFile |-> FALSE]
    IN  [filename |-> filename, ok |-> r.ok, sha1 |-> r.sha1, error |-> r.error,
         resolvedPath |-> resolvedPath,
         recorded |-> IF resolvedPath = NoPath THEN NoSha1
                      ELSE GetSha1Of(g.hasteFS, resolvedPath),
         readFile |-> r.readFile]

--------------------------------------------------------------------------
(* getHasteName(filePath) *)

\* this._config.projectRoot
ProjectRoot == RDIR

\* a getHasteName that returns the path as given when there is no haste name
GetHasteNameAbsolute(g, filePath) ==
    LET hasteName == GetModuleName(g.hasteFS, filePath)
    IN  IF hasteName # NULL
        THEN [filePath |-> filePath, name |-> hasteName, relative |-> NoPath]
        ELSE [filePath |-> filePath, name |-> NULL, relative |-> filePath]

\* lines 224-232: the haste name of the snapshot, else the path relative to
\* the project root (name is null when the relative path is the answer)
GetHasteName(g, filePath) ==
    LET hasteName == GetModuleName(g.hasteFS, filePath)
    IN  IF hasteName # NULL
        THEN [filePath |-> filePath, name |-> hasteName, relative |-> NoPath]
        ELSE [filePath |-> filePath, name |-> NULL,
              relative |-> Relative(ProjectRoot, filePath)]

--------------------------------------------------------------------------
(* _getClosestPackage(filePath), one iteration of its do-while at a time *)

\* path.parse(filePath).root: '/' for an absolute path, '' for a relative one
\* (no directory is '', so the comparison with it never ends the loop)
ParseRoot(p) == IF Len(p) > 0 /\ p[1] = ROOT THEN <<ROOT>> ELSE << <<"">> >>

\* path.parse(filePath).dir: the path without its last segment ('' for a
\* bare file name, '/' for a file of the root directory)
ParseDir(p) == SubSeq(p, 1, Len(p) - 1)

NoClosest ==
    [filePath |-> NoPath, root |-> NoPath, dir |-> NoPath, steps |-> 0,
     running |-> FALSE, result |-> NULL]

\* lines 125-127: the locals before the loop
ClosestPackageEnter(filePath) ==
    [filePath |-> filePath, root |-> ParseRoot(filePath), dir |-> ParseDir(filePath),
     steps |-> 0, running |-> TRUE, result |-> NULL]

\* a loop that forgets line 133 and stays in the directory
ClosestPackageStepStay(g, c) ==
    LET candidate == Join(c.dir, PACKAGE_JSON)
    IN  IF Exists(g.hasteFS, candidate)
        THEN [c EXCEPT !.steps = @ + 1, !.running = FALSE, !.result = candidate]
        ELSE [c EXCEPT !.steps = @ + 1]

\* lines 128-134: one iteration, with the test of the while that follows it
ClosestPackageStep(g, c) ==
    LET candidate == Join(c.dir, PACKAGE_JSON)
        dir == Dirname(c.dir)
    IN  IF Exists(g.hasteFS, candidate)
        THEN [c EXCEPT !.steps = @ + 1, !.running = FALSE, !.result = candidate]
        ELSE [c EXCEPT !.steps = @ + 1, !.dir = dir,
                       !.running = (dir # <<>> /\ dir # c.root)]

--------------------------------------------------------------------------
(* _onHasteChange({eventsQueue, hasteFS, moduleMap}), statement by statement *)

\* a handler that forgets line 139 and keeps the old snapshot
SetHasteFSKeepOld(g, n) == g

\* line 139: this._hasteFS = hasteFS
SetHasteFS(g, n) == [g EXCEPT !.hasteFS = n.hasteFS]

\* a handler that forgets line 140 and keeps the old index
RebuildIndexKeepOld(g, n) == g

\* a handler that adds the new files to the old index instead of rebuilding it
RebuildIndexAddOnly(g, n) ==
    [g EXCEPT !.filesByDirNameIndex =
        FilesByDirNameIndex(n.hasteFS.gen,
            n.hasteFS.files \cup {Join(d, b) : d \in DOMAIN g.filesByDirNameIndex.byDir,
                                               b \in UNION {g.filesByDirNameIndex.byDir[x] :
                                                              x \in DOMAIN g.filesByDirNameIndex.byDir}})]

\* line 140: this._filesByDirNameIndex = new FilesByDirNameIndex(hasteFS.getAllFiles())
RebuildIndex(g, n) ==
    [g EXCEPT !.filesByDirNameIndex = FilesByDirNameIndex(n.hasteFS.gen, n.hasteFS.files)]

\* a handler that clears the asset cache only when the batch has events
ClearAssetCacheKeep(g) == g

\* line 141: this._assetResolutionCache.clear()
ClearAssetCache(g) == [g EXCEPT !.assetResolutionCache = << >>]

\* line 142: this._moduleMap = moduleMap
SetModuleMap(g, n) == [g EXCEPT !.moduleMap = n.moduleMap]

RECURSIVE ForEachEvent(_, _, _)
\* eventsQueue.forEach(...) from the i-th event on
ForEachEvent(cache, eventsQueue, i) ==
    IF i > Len(eventsQueue) THEN cache
    ELSE ForEachEvent(ProcessFileChange(cache, eventsQueue[i].type, eventsQueue[i].filePath),
                      eventsQueue, i + 1)

\* a handler that makes a new module cache for the new snapshot
ProcessEventsNewCache(g, n) == [g EXCEPT !.moduleCache = << >>]

\* a handler that purges on change and delete events only
ProcessEventsSkipAdd(g, n) ==
    [g EXCEPT !.moduleCache =
        ForEachEvent(g.moduleCache,
                     SelectSeq(n.eventsQueue, LAMBDA e : e.type # "add"), 1)]

\* lines 143-145: every event's path goes to moduleCache.processFileChange
ProcessEvents(g, n) ==
    [g EXCEPT !.moduleCache = ForEachEvent(g.moduleCache, n.eventsQueue, 1)]

\* line 147: this.emit('change'); a subscriber runs inside the emit and may
\* call resolveDependency (sub), on the graph as it is at that moment
EmitChange(g, sub) ==
    LET e == [g EXCEPT !.emitted = g.emitted + 1]
    IN  IF sub.call
        THEN LET r == ResolveDependency(e, sub.from, sub.to, sub.platform)
             IN  [r.g EXCEPT !.seen = r.out]
        ELSE [e EXCEPT !.seen = NoOutcome]

\* a handler that builds the resolver before it stores the new moduleMap
OnHasteChangeResolverFirst(g, n, sub) ==
    EmitChange(
      ProcessEvents(
        SetModuleMap(
          CreateModuleResolver(
            ClearAssetCache(
              RebuildIndex(
                SetHasteFS(g, n), n))), n), n), sub)

\* a handler that emits 'change' before it rebuilds the resolver
OnHasteChangeEmitEarly(g, n, sub) ==
    CreateModuleResolver(
      EmitChange(
        ProcessEvents(
          SetModuleMap(
            ClearAssetCache(
              RebuildIndex(
                SetHasteFS(g, n), n)), n), n), sub))

\* the handler, lines 139-147 in order
OnHasteChange(g, n, sub) ==
    EmitChange(
      CreateModuleResolver(
        ProcessEvents(
          SetModuleMap(
            ClearAssetCache(
              RebuildIndex(
                SetHasteFS(g, n), n)), n), n)), sub)

--------------------------------------------------------------------------
(* The notifications the haste map may deliver *)

RECURSIVE SetToSeq(_)
SetToSeq(S) ==
    IF S = {} THEN <<>>
    ELSE LET x == CHOOSE y \in S : TRUE IN <<x>> \o SetToSeq(S \ {x})

\* files a batch may report as edited in place
Editable == {A_JS, FOO_JS}

\* the events of a batch that turns the tracked files `old` into `new` and
\* edits `edited`: one add, delete or change event per path
EventsOf(old, new, edited) ==
    SetToSeq({[type |-> "add", filePath |-> f] : f \in new \ old}
             \cup {[type |-> "delete", filePath |-> f] : f \in old \ new}
             \cup {[type |-> "change", filePath |-> f] : f \in edited})

\* the file sets over `universe` that differ from `old` in at most MaxEvents files
Nearby(old, universe) ==
    {fl \in SUBSET universe : Cardinality((fl \ old) \cup (old \ fl)) <= MaxEvents}

\* the 'change' payloads {eventsQueue, hasteFS, moduleMap} that may follow a
\* snapshot tracking `old`: at most MaxEvents events; an unchanged file set
\* with no edit is the empty batch
Notifications(old, gen, universe, fooHashes) ==
    UNION { { [eventsQueue |-> EventsOf(old, fs.files, ed),
               hasteFS |-> fs,
               moduleMap |-> ModuleMapOf(gen, fs.files)] :
                 ed \in {e \in SUBSET (old \cap fs.files \cap Editable) :
                           Cardinality(e) + Cardinality((fs.files \ old) \cup (old \ fs.files))
                             <= MaxEvents} } :
            fs \in Snapshots(gen, Nearby(old, universe), fooHashes) }

\* the calls a subscriber of the graph's 'change' makes from its handler
SubCalls == {Call(A_JS, Bare(<< <<"Bar">> >>), NULL)}

\* the paths getSha1 is asked about: a file, a symbolic link to it, a
\* directory, a path that does not exist
Sha1Inputs == {FOO_JS, LINK_JS, LIBDIR, NOPE_JS}

--------------------------------------------------------------------------
(* State machine *)

\* the object as a record of its fields
This ==
    [hasteFS |-> hasteFS,
     filesByDirNameIndex |-> filesByDirNameIndex,
     assetResolutionCache |-> assetResolutionCache,
     moduleMap |-> moduleMap,
     moduleResolver |-> moduleResolver,
     moduleCache |-> moduleCache,
     changes |-> changes,
     emitted |-> emitted,
     seen |-> NoOutcome]

Assign(g) ==
    /\ hasteFS' = g.hasteFS
    /\ filesByDirNameIndex' = g.filesByDirNameIndex
    /\ assetResolutionCache' = g.assetResolutionCache
    /\ moduleMap' = g.moduleMap
    /\ moduleResolver' = g.moduleResolver
    /\ moduleCache' = g.moduleCache
    /\ changes' = g.changes
    /\ emitted' = g.emitted

NoChange == [events |-> {}, sub |-> NoCall, assetsBefore |-> {}, modulesBefore |-> {}]

\* the outcome of a call with what the same call gave the time before
\* ("none" when the call made before was another one)
WithPrev(out, before) ==
    [call |-> out.call, ok |-> out.ok, path |-> out.path, obs |-> out.obs,
     listings |-> out.listings, error |-> out.error,
     prev |-> IF before.call = out.call
              THEN (IF before.ok THEN "ok" ELSE "fail") ELSE "none",
     prevPath |-> IF before.call = out.call THEN before.path ELSE NoPath]

\* what happened since a getSha1 call: the notifications handled, whether the
\* file was written on disk, and the hash recorded by the notification handled
\* last when it reported an edit of the path asked about (NoSha1 otherwise)
NoSince == [batches |-> 0, written |-> FALSE, editHash |-> NoSha1]

NoPrevSha1 ==
    [same |-> FALSE, ok |-> FALSE, sha1 |-> NoSha1, recorded |-> NoSha1, since |-> NoSince]

\* the outcome of a getSha1 call with what the call before it gave for the
\* same path, and what happened between the two
WithPrevSha1(out, before) ==
    [filename |-> out.filename, ok |-> out.ok, sha1 |-> out.sha1, error |-> out.error,
     resolvedPath |-> out.resolvedPath, recorded |-> out.recorded, readFile |-> out.readFile,
     since |-> NoSince,
     prev |-> IF before.filename = out.filename
              THEN [same |-> TRUE, ok |-> before.ok, sha1 |-> before.sha1,
                    recorded |-> before.recorded, since |-> before.since]
              ELSE NoPrevSha1]

\* the notification n was handled after the getSha1 call s
SinceBatch(s, n) ==
    IF s.filename = NoPath THEN s
    ELSE [s EXCEPT !.since.batches = @ + 1,
                   !.since.editHash =
                       IF \E i \in 1..Len(n.eventsQueue) :
                              n.eventsQueue[i] = [type |-> "change", filePath |-> s.filename]
                       THEN GetSha1Of(n.hasteFS, s.filename)
                       ELSE NoSha1]

NoName == [filePath |-> NoPath, name |-> NULL, relative |-> NoPath]

\* DependencyGraph.load: the graph constructed over the first crawl
InitWith(universe, fooHashes) ==
    \E fs \in Snapshots(0, SUBSET universe, fooHashes) :
        LET g == Constructor(fs, ModuleMapOf(0, fs.files))
        IN  /\ haste = [hasteFS |-> fs, moduleMap |-> ModuleMapOf(0, fs.files)]
            /\ hasteFS = g.hasteFS
            /\ filesByDirNameIndex = g.filesByDirNameIndex
            /\ assetResolutionCache = g.assetResolutionCache
            /\ moduleMap = g.moduleMap
            /\ moduleResolver = g.moduleResolver
            /\ moduleCache = g.moduleCache
            /\ changes = 0
            /\ emitted = 0
            /\ disk = [f \in {FOO_JS} |-> "v1"]
            /\ lastOp = "load"
            /\ lastChange = NoChange
            /\ lastResolve = WithPrev(NoOutcome, [NoOutcome EXCEPT !.call = Call(NoPath, Rel(<<>>), NULL)])
            /\ lastSha1 = WithPrevSha1(NoSha1Outcome, [NoSha1Outcome EXCEPT !.filename = ROOT])
            /\ closest = NoClosest
            /\ lastName = NoName

\* the haste map emits 'change' and _onHasteChange runs to its end, the
\* subscriber's handler included
HasteChange(sub, universe, fooHashes) ==
    /\ changes < MaxChanges
    /\ \E n \in Notifications(hasteFS.files, changes + 1, universe, fooHashes) :
        \E g \in {OnHasteChange([This EXCEPT !.changes = changes + 1], n, sub)} :
            /\ haste' = [hasteFS |-> n.hasteFS, moduleMap |-> n.moduleMap]
            /\ Assign(g)
            /\ lastOp' = "change"
            /\ lastChange' = [events |-> {n.eventsQueue[i] : i \in 1..Len(n.eventsQueue)},
                              sub |-> sub,
                              assetsBefore |-> DOMAIN assetResolutionCache,
                              modulesBefore |-> DOMAIN moduleCache]
            /\ lastResolve' = IF sub.call THEN WithPrev(g.seen, lastResolve) ELSE lastResolve
            /\ lastSha1' = SinceBatch(lastSha1, n)
            /\ UNCHANGED <<disk, closest, lastName>>

\* a caller resolves a dependency
ResolveOf(calls) ==
    \E c \in calls :
        \E r \in {ResolveDependency(This, c.from, c.to, c.platform)} :
            /\ Assign(r.g)
            /\ lastOp' = "resolve"
            /\ lastResolve' = WithPrev(r.out, lastResolve)
            /\ lastChange' = NoChange
            /\ UNCHANGED <<haste, disk, lastSha1, closest, lastName>>

\* a caller asks for the hash of a path
Sha1 ==
    \E filename \in Sha1Inputs :
        /\ lastSha1' = WithPrevSha1(GetSha1(This, disk, filename), lastSha1)
        /\ lastOp' = "sha1"
        /\ lastChange' = NoChange
        /\ UNCHANGED <<haste, hasteFS, filesByDirNameIndex, assetResolutionCache, moduleMap,
                       moduleResolver, moduleCache, disk, changes, emitted, lastResolve,
                       closest, lastName>>

\* the file is written or removed on disk, unseen by the graph until the
\* haste map reports it
DiskWrite ==
    \E c \in (Contents \cup {Absent}) \ {disk[FOO_JS]} :
        /\ disk' = [disk EXCEPT ![FOO_JS] = c]
        /\ lastOp' = "write"
        /\ lastChange' = NoChange
        /\ lastSha1' = [lastSha1 EXCEPT !.since.written = TRUE]
        /\ UNCHANGED <<haste, hasteFS, filesByDirNameIndex, assetResolutionCache, moduleMap,
                       moduleResolver, moduleCache, changes, emitted, lastResolve,
                       closest, lastName>>

Resolve == ResolveOf(Calls)

\* resolution: every crawl records the hash of every file
Computed == {Sha1Hex("v1")}

Init == InitWith(Universe, Computed)

Next ==
    \/ \E sub \in {NoCall} \cup SubCalls : HasteChange(sub, Universe, Computed)
    \/ Resolve

Spec == Init /\ [][Next]_vars

\* the hash queries, with the disk changing under the graph
FooHashes == {NoSha1} \cup {Sha1Hex(c) : c \in Contents}

InitSha1 == InitWith(UniverseSha1, FooHashes)

NextSha1 ==
    \/ HasteChange(NoCall, UniverseSha1, FooHashes)
    \/ Sha1
    \/ DiskWrite

SpecSha1 == InitSha1 /\ [][NextSha1]_vars

\* the paths _getClosestPackage is asked about: absolute ones two, one and
\* no directory below the root, a relative one, a bare file name
PkgInputs ==
    { BAR_JS, A_JS, Join(<<ROOT>>, X_JS), << <<"lib">>, X_JS >>, << X_JS >> }

\* the module cache asks for the closest package of a file
GetClosestPackage ==
    /\ ~closest.running
    /\ \E filePath \in PkgInputs : closest' = ClosestPackageEnter(filePath)
    /\ lastOp' = "closest"
    /\ lastChange' = NoChange
    /\ UNCHANGED <<haste, hasteFS, filesByDirNameIndex, assetResolutionCache, moduleMap,
                   moduleResolver, moduleCache, disk, changes, emitted, lastResolve,
                   lastSha1, lastName>>

\* the loop of the call in progress runs one iteration
ClosestPackageLoop ==
    /\ closest.running
    /\ closest.steps < MaxWalk
    /\ closest' = ClosestPackageStep(This, closest)
    /\ UNCHANGED <<haste, hasteFS, filesByDirNameIndex, assetResolutionCache, moduleMap,
                   moduleResolver, moduleCache, disk, changes, emitted, lastOp, lastChange,
                   lastResolve, lastSha1, lastName>>

\* the package queries: the call is synchronous, no notification is handled
\* while its loop runs
InitPkg == InitWith(UniversePkg, Computed)

NextPkg ==
    \/ (~closest.running /\ HasteChange(NoCall, UniversePkg, Computed))
    \/ GetClosestPackage
    \/ ClosestPackageLoop

SpecPkg == InitPkg /\ [][NextPkg]_vars

\* the loop, once entered, keeps running
SpecPkgFair == SpecPkg /\ WF_vars(ClosestPackageLoop)

\* the calls of the redirect behaviours: a bare specifier the redirect table
\* names, one it does not name, a relative one
CallsRedirect ==
    { Call(FOO_JS, Bare(<< <<"pkg">> >>), NULL),
      Call(FOO_JS, Bare(<< <<"Bar">> >>), "ios"),
      Call(A_JS, Rel(<< <<"foo">> >>), "ios") }

InitRedirect == InitWith(UniverseRedirect, Computed)

NextRedirect ==
    \/ HasteChange(NoCall, UniverseRedirect, Computed)
    \/ ResolveOf(CallsRedirect)

SpecRedirect == InitRedirect /\ [][NextRedirect]_vars

\* the calls of the platform behaviours: one specifier, with and without a
\* platform
CallsPlatform ==
    { Call(A_JS, Rel(<< <<"foo">> >>), "ios"),
      Call(A_JS, Rel(<< <<"foo">> >>), NULL) }

InitPlatform == InitWith(UniversePlatform, Computed)

NextPlatform ==
    \/ HasteChange(NoCall, UniversePlatform, Computed)
    \/ ResolveOf(CallsPlatform)

SpecPlatform == InitPlatform /\ [][NextPlatform]_vars

\* the paths getHasteName is asked about: a file with a haste name, one
\* without, one outside the project root
NameInputs == {BAR_JS, A_JS, Join(<<ROOT>>, X_JS)}

\* a caller asks for the name of a file
HasteName ==
    /\ \E filePath \in NameInputs : lastName' = GetHasteName(This, filePath)
    /\ lastOp' = "name"
    /\ lastChange' = NoChange
    /\ UNCHANGED <<haste, hasteFS, filesByDirNameIndex, assetResolutionCache, moduleMap,
                   moduleResolver, moduleCache, disk, changes, emitted, lastResolve,
                   lastSha1, closest>>

\* the name queries
InitName == InitWith(UniverseName, Computed)

NextName ==
    \/ HasteChange(NoCall, UniverseName, Computed)
    \/ HasteName

SpecName == InitName /\ [][NextName]_vars

--------------------------------------------------------------------------
(* Properties *)

\* a resolveDependency call is the last thing that ran: a caller's, or the
\* one a subscriber made from inside the emit of the handler
ResolveJustRan == lastOp = "resolve" \/ (lastOp = "change" /\ lastChange.sub.call)

\* no tracked file is named like the specifier (foo, foo.js, foo.ios.js ...)
NoMatchingFile(to, files) ==
    \A f \in files : Basename(f)[1] # to.segs[Len(to.segs)][1]

\* C1: notifications are applied in the order received (the graph holds the
\* snapshot of the notification delivered last), and a resolveDependency call
\* works on a snapshot, index, asset cache and resolver moduleMap that all
\* come from that one notification, never on a mix of generations.
C1_OneGeneration ==
    /\ haste.hasteFS.gen = changes
    /\ hasteFS = haste.hasteFS
    /\ ResolveJustRan =>
        /\ lastResolve.obs.fs = changes
        /\ lastResolve.obs.index = changes
        /\ lastResolve.obs.map = changes
        /\ lastResolve.obs.cache \subseteq {changes}

C1_Witness ==
    /\ lastOp = "resolve"
    /\ changes = 2
    /\ lastResolve.obs.cache = {2}
    /\ lastResolve.ok

C3_IncrementalDelete ==
    (/\ ResolveJustRan
     /\ lastResolve.prev = "ok"
     /\ lastResolve.prevPath \notin haste.hasteFS.files)
    => /\ lastResolve.path # lastResolve.prevPath
       /\ NoMatchingFile(lastResolve.call.to, haste.hasteFS.files) => ~lastResolve.ok

C3_Witness ==
    /\ lastOp = "resolve"
    /\ lastResolve.prev = "ok"
    /\ lastResolve.prevPath = IMG_PNG
    /\ IMG_PNG \notin haste.hasteFS.files
    /\ ~lastResolve.ok

\* C4: every notification, the empty batch included, clears the asset
\* resolution cache: no entry computed under an earlier generation survives
\* the handler, and an asset resolve answers from the files of the snapshot
\* delivered last.
C4_AssetCacheCleared ==
    /\ \A k \in DOMAIN assetResolutionCache : assetResolutionCache[k].gen = changes
    /\ (lastOp = "change" /\ ~lastChange.sub.call) => assetResolutionCache = << >>
    /\ (ResolveJustRan /\ lastResolve.call.to.kind = "rel" /\ IsAssetFile(lastResolve.call.to.segs)) =>
         LET target == Dirname(lastResolve.call.from) \o lastResolve.call.to.segs
         IN  /\ lastResolve.ok <=> target \in haste.hasteFS.files
             /\ lastResolve.ok => lastResolve.path = target

\* an empty batch found a memoized entry and the handler dropped it
C4_Witness ==
    /\ lastOp = "change"
    /\ lastChange.events = {}
    /\ lastChange.assetsBefore # {}
    /\ assetResolutionCache = << >>

\* C5: after construction and after every notification the FileIndex is the
\* one of the snapshot delivered last: every tracked file is listed under its
\* directory, and nothing is listed that the snapshot does not track.
C5_IndexMatchesSnapshot ==
    /\ hasteFS = haste.hasteFS
    /\ \A f \in haste.hasteFS.files :
         Basename(f) \in IndexGetAllFiles(filesByDirNameIndex, Dirname(f))
    /\ \A d \in DOMAIN filesByDirNameIndex.byDir :
         \A b \in filesByDirNameIndex.byDir[d] : Join(d, b) \in haste.hasteFS.files

\* a notification removed a file of a directory that still lists another
C5_Witness ==
    /\ lastOp = "change"
    /\ \E e \in lastChange.events : e.type = "delete" /\ e.filePath = FOO_JS
    /\ IndexGetAllFiles(filesByDirNameIndex, RDIR) = {Basename(A_JS)}
    /\ IndexGetAllFiles(filesByDirNameIndex, LIBDIR) = {Basename(BAR_JS)}

\* C6: after the handler no path named by an event of the batch, whatever the
\* type of the event, has a module cache entry made before the batch (an entry
\* at such a path was made by a subscriber during the emit).
C6_EventPathsPurged ==
    lastOp = "change" =>
        \A e \in lastChange.events :
            e.filePath \in DOMAIN moduleCache => 
                /\ moduleCache[e.filePath].created = changes
                /\ lastChange.sub.call
                /\ lastChange.sub.from = e.filePath

\* an add event named a path that had an entry, and the entry is gone
C6_Witness ==
    /\ lastOp = "change"
    /\ \E e \in lastChange.events :
         /\ e.type = "add"
         /\ e.filePath \in lastChange.modulesBefore
         /\ e.filePath \notin DOMAIN moduleCache

\* C7: each notification makes the graph emit 'change' once, after the
\* snapshot, the index, the asset cache, the module cache and the resolver were
\* updated: a subscriber that resolves from inside its handler works on the
\* new generation throughout and gets the answer of the new snapshot.
C7_EmitsOnceWhenDone ==
    /\ emitted = changes
    /\ (lastOp = "change" /\ lastChange.sub.call) =>
         /\ lastResolve.call = lastChange.sub
         /\ lastResolve.obs.fs = changes
         /\ lastResolve.obs.index = changes
         /\ lastResolve.obs.map = changes
         /\ lastResolve.obs.cache \subseteq {changes}
         /\ lastResolve.call.to = Bare(<< <<"Bar">> >>) =>
              /\ lastResolve.ok <=> BAR_JS \in haste.hasteFS.files
              /\ lastResolve.ok => lastResolve.path = BAR_JS

\* the subscriber resolved, from inside the emit, the file the batch added
C7_Witness ==
    /\ lastOp = "change"
    /\ lastChange.sub.call
    /\ \E e \in lastChange.events : e.type = "add" /\ e.filePath = BAR_JS
    /\ lastResolve.ok
    /\ lastResolve.path = BAR_JS
    /\ emitted = 2

\* every entry of `old` is an entry of `new`, unchanged
Extends(old, new) ==
    /\ DOMAIN old \subseteq DOMAIN new
    /\ \A k \in DOMAIN old : new[k] = old[k]

\* C8 as stated: a resolveDependency call leaves the snapshot, the FileIndex,
\* the asset resolution cache and the module cache as they were.
C8_NoMutation ==
    [][lastOp' = "resolve" =>
         UNCHANGED <<hasteFS, filesByDirNameIndex, assetResolutionCache, moduleCache>>]_vars

\* C8, amended: a resolveDependency call leaves the snapshot, the FileIndex,
\* the moduleMap and the resolver as they were, and every entry of the asset
\* resolution cache and of the module cache as it was; it only adds entries to
\* the two caches.  Replacing the former and dropping entries of the latter
\* happens in the change handler alone.
C8_OnlyMemoizes ==
    [][lastOp' # "change" =>
         /\ UNCHANGED <<hasteFS, filesByDirNameIndex, moduleMap, moduleResolver>>
         /\ Extends(assetResolutionCache, assetResolutionCache')
         /\ Extends(moduleCache, moduleCache')]_vars

\* a failing asset resolve, before any notification, left its memoized entry
\* and the module of the origin in caches that were empty after construction
C8_Witness ==
    /\ lastOp = "resolve"
    /\ changes = 0
    /\ ~lastResolve.ok
    /\ IsAssetFile(lastResolve.call.to.segs)
    /\ DOMAIN moduleCache = {lastResolve.call.from}
    /\ DOMAIN assetResolutionCache # {}

\* C9: getSha1 never fails because the registry records no hash for the real
\* path: it then returns the hash of the content the file has on disk.  The
\* 'SHA-1 is not computed' error is never raised; a failure is the I/O error of
\* a path that cannot be resolved (ENOENT) or read (EISDIR).
C9_RecomputesOnMiss ==
    lastOp = "sha1" =>
        LET real == lastSha1.resolvedPath
        IN  /\ lastSha1.error # "SHA-1 is not computed"
            /\ ~lastSha1.ok => lastSha1.error \in {"ENOENT", "EISDIR"}
            /\ lastSha1.error = "ENOENT" <=> real = NoPath
            /\ lastSha1.error = "EISDIR" <=> (real # NoPath /\ DirExists(real))
            /\ (real # NoPath /\ ~DirExists(real) /\ GetSha1Of(haste.hasteFS, real) = NoSha1) =>
                 /\ lastSha1.ok
                 /\ lastSha1.sha1 = Sha1Hex(disk[real])

\* the file is tracked, its hash was not computed, and the call through the
\* symbolic link returned the hash of the content on disk
C9_Witness ==
    /\ lastOp = "sha1"
    /\ lastSha1.filename = LINK_JS
    /\ FOO_JS \in haste.hasteFS.files
    /\ GetSha1Of(haste.hasteFS, FOO_JS) = NoSha1
    /\ lastSha1.ok
    /\ lastSha1.sha1 = Sha1Hex("v2")

\* C10: when the snapshot records a hash for the real target of the path,
\* getSha1 returns that recorded hash, found under the real path and not under
\* the path as given, and the file is not read.
C10_RecordedHashOfRealPath ==
    (lastOp = "sha1" /\ lastSha1.ok) =>
        LET real == IF lastSha1.filename = LINK_JS THEN FOO_JS ELSE lastSha1.filename
        IN  GetSha1Of(haste.hasteFS, real) # NoSha1 =>
              /\ lastSha1.sha1 = GetSha1Of(haste.hasteFS, real)
              /\ ~lastSha1.readFile

\* through the symbolic link, which the registry does not track, the call
\* returned the hash recorded for the target, though the content on disk has
\* another hash by now
C10_Witness ==
    /\ lastOp = "sha1"
    /\ lastSha1.filename = LINK_JS
    /\ LINK_JS \notin haste.hasteFS.files
    /\ lastSha1.ok
    /\ lastSha1.sha1 = Sha1Hex("v1")
    /\ disk[FOO_JS] = "v2"
    /\ ~lastSha1.readFile

\* C11 as stated: two getSha1 calls for a path with no notification handled
\* between them return the same hash, and after a notification that reported
\* an edit of the path the call returns another hash than before.
C11_HashStability ==
    (lastOp = "sha1" /\ lastSha1.prev.same /\ lastSha1.prev.ok) =>
        /\ lastSha1.prev.since.batches = 0 =>
              (lastSha1.ok /\ lastSha1.sha1 = lastSha1.prev.sha1)
        /\ (lastSha1.prev.since.batches = 1 /\ lastSha1.prev.since.editHash # NoSha1
                /\ lastSha1.prev.since.editHash # lastSha1.prev.recorded) =>
              (lastSha1.ok => lastSha1.sha1 # lastSha1.prev.sha1)

\* C11, amended: two getSha1 calls for a path return the same hash when no
\* notification was handled and the file was not written on disk between
\* them (without a recorded hash the call reads the disk, so a write shows
\* even before the haste map reports it).  After one notification that
\* reported an edit of the path and recorded the hash of its new content,
\* the call returns that recorded hash; it differs from the value returned
\* before whenever that value was the hash the registry recorded then.
C11_HashStableWhileUnwritten ==
    (lastOp = "sha1" /\ lastSha1.prev.same /\ lastSha1.prev.ok) =>
        LET before == lastSha1.prev
            edited == /\ before.since.batches = 1
                      /\ before.since.editHash # NoSha1
                      /\ before.since.editHash # before.recorded
        IN  /\ (before.since.batches = 0 /\ ~before.since.written) =>
                  (lastSha1.ok /\ lastSha1.sha1 = before.sha1)
            /\ (edited /\ lastSha1.ok) => lastSha1.sha1 = before.since.editHash
            /\ (edited /\ lastSha1.ok /\ before.recorded # NoSha1) =>
                  lastSha1.sha1 # before.sha1

\* the registry recorded the hash of v1, a notification reported the edit to
\* v2, and the second call returned the hash of v2
C11_Witness ==
    /\ lastOp = "sha1"
    /\ lastSha1.filename = FOO_JS
    /\ lastSha1.prev.same
    /\ lastSha1.prev.sha1 = Sha1Hex("v1")
    /\ lastSha1.prev.recorded = Sha1Hex("v1")
    /\ lastSha1.prev.since.batches = 1
    /\ lastSha1.prev.since.editHash = Sha1Hex("v2")
    /\ lastSha1.ok
    /\ lastSha1.sha1 = Sha1Hex("v2")

\* C14: of two resolveDependency calls for the same asset (directory, name,
\* platform) with no notification handled between them, the second makes no
\* getDirFiles call: it finds the entry the first one memoized, returns what
\* that entry says and leaves the cache as it is.
C14_SecondAssetResolveIsMemoized ==
    [][(/\ lastOp = "resolve"
        /\ lastOp' = "resolve"
        /\ lastResolve'.call = lastResolve.call
        /\ lastResolve.call.to.kind = "rel"
        /\ IsAssetFile(lastResolve.call.to.segs))
       => LET c == lastResolve.call
              key == AssetKey(Dirname(c.from), Basename(c.to.segs), c.platform)
          IN  /\ lastResolve.listings <= 1
              /\ lastResolve'.listings = 0
              /\ key \in DOMAIN assetResolutionCache
              /\ lastResolve'.ok = assetResolutionCache[key].found
              /\ lastResolve'.ok => lastResolve'.path = Join(key.dir, assetResolutionCache[key].file)
              /\ assetResolutionCache' = assetResolutionCache]_vars

\* the same asset was resolved twice in a row: the first call listed the
\* directory, the second did not and returned the same file
C14_Witness ==
    /\ lastOp = "resolve"
    /\ lastResolve.call = Call(A_JS, Rel(<< <<"img", "png">> >>), NULL)
    /\ lastResolve.prev = "ok"
    /\ lastResolve.ok
    /\ lastResolve.path = IMG_PNG
    /\ lastResolve.listings = 0

\* C15: a bare specifier that an entry of extraNodeModules names resolves to
\* the file reached through that entry, also when a node_modules directory
\* above the origin holds a package of the same name.
C15_RedirectWins ==
    (/\ ResolveJustRan
     /\ lastResolve.call.to = Bare(<< <<"pkg">> >>)
     /\ EXTRA_PKG_JS \in haste.hasteFS.files
     /\ NM_PKG_JS \in haste.hasteFS.files)
    => (lastResolve.ok /\ lastResolve.path = EXTRA_PKG_JS)

\* both the redirect target and the node_modules package are tracked, and the
\* call returned the redirect target
C15_Witness ==
    /\ lastOp = "resolve"
    /\ lastResolve.call.to = Bare(<< <<"pkg">> >>)
    /\ {EXTRA_PKG_JS, NM_PKG_JS} \subseteq haste.hasteFS.files
    /\ lastResolve.path = EXTRA_PKG_JS

C17_FailsOrExists ==
    ResolveJustRan =>
        /\ NoMatchingFile(lastResolve.call.to, haste.hasteFS.files) => ~lastResolve.ok
        /\ ~lastResolve.ok =>
              /\ lastResolve.path = NoPath
              /\ lastResolve.error = [thrown |-> TRUE,
                                      from |-> lastResolve.call.from,
                                      to |-> lastResolve.call.to,
                                      platform |-> lastResolve.call.platform]
        /\ lastResolve.ok =>
              /\ ~lastResolve.error.thrown
              /\ lastResolve.path \in haste.hasteFS.files

\* the redirect target and the node_modules package were both removed: the
\* call that had succeeded failed, with the error naming origin and specifier
C17_Witness ==
    /\ lastOp = "resolve"
    /\ lastResolve.call.to = Bare(<< <<"pkg">> >>)
    /\ lastResolve.prev = "ok"
    /\ haste.hasteFS.files \cap {EXTRA_PKG_JS, NM_PKG_JS} = {}
    /\ lastResolve.error.thrown
    /\ lastResolve.error.from = FOO_JS
    /\ lastResolve.error.to = Bare(<< <<"pkg">> >>)

\* C18: after construction and after every notification the resolver in use
\* was built over the snapshot delivered last: the moduleMap it captured is
\* this._moduleMap, which is the one of that notification, and its
\* doesFileExist answers from that snapshot; no resolveDependency call, that
\* of a subscriber included, works with the moduleMap of an earlier one.
C18_ResolverIsCurrent ==
    /\ moduleMap = haste.moduleMap
    /\ moduleResolver.moduleMap = moduleMap
    /\ moduleResolver.moduleMap.gen = changes
    /\ \A p \in Universe : DoesFileExist(This, p) <=> p \in haste.hasteFS.files
    /\ ResolveJustRan =>
          /\ lastResolve.obs.map = changes
          /\ lastResolve.call.to = Bare(<< <<"Bar">> >>) =>
                (lastResolve.ok <=> BAR_JS \in haste.hasteFS.files)

\* the second notification added the file with the haste name, and the call
\* that had failed found it through the moduleMap of that notification
C18_Witness ==
    /\ lastOp = "resolve"
    /\ changes = 2
    /\ lastResolve.call.to = Bare(<< <<"Bar">> >>)
    /\ lastResolve.prev = "fail"
    /\ lastResolve.ok
    /\ lastResolve.obs.map = 2
    /\ moduleResolver.moduleMap.names = {<<"Bar", BAR_JS>>}

\* C20: the module cache made by the constructor lives through every
\* notification: the handler drops the entries at the paths its events name
\* and no other; the entry of any other path is the same entry after the
\* handler, and getModule still returns it.
C20_OtherEntriesKept ==
    [][lastOp' = "change" =>
         \A p \in DOMAIN moduleCache :
             (\A e \in lastChange'.events : e.filePath # p) =>
                 /\ p \in DOMAIN moduleCache'
                 /\ moduleCache'[p] = moduleCache[p]
                 /\ CacheGetModule(moduleCache', p, changes')[p] = moduleCache[p]]_vars

\* the second notification reported foo.js alone: the module of a.js, made
\* before the first notification, is still in the cache
C20_Witness ==
    /\ lastOp = "change"
    /\ changes = 2
    /\ ~lastChange.sub.call
    /\ \E e \in lastChange.events : e.filePath = FOO_JS
    /\ A_JS \in lastChange.modulesBefore
    /\ A_JS \in DOMAIN moduleCache
    /\ moduleCache[A_JS].created = 0

RECURSIVE Resolved(_, _)
\* path.resolve(dir, rel): the segments of rel applied to dir, '..' going up
Resolved(dir, rel) ==
    IF Len(rel) = 0 THEN dir
    ELSE IF rel[1] = <<"..">> THEN Resolved(Dirname(dir), Tail(rel))
    ELSE Resolved(Append(dir, rel[1]), Tail(rel))

\* C13: getHasteName returns the haste name the snapshot delivered last
\* records for the path when it records one, and otherwise a path that leads
\* from the project root to the file; after a notification the answer is
\* that of the new snapshot.
C13_NameOrRelativePath ==
    lastOp = "name" =>
        LET f == lastName.filePath
            named == f \in haste.hasteFS.files /\ HasteNameOf(f) # ""
        IN  /\ named => (lastName.name = HasteNameOf(f) /\ lastName.relative = NoPath)
            /\ ~named =>
                  /\ lastName.name = NULL
                  /\ lastName.relative # NoPath
                  /\ lastName.relative[1] # ROOT
                  /\ Resolved(ProjectRoot, lastName.relative) = f

\* the notification handled last removed the file with the haste name, and
\* the call answered with its path below the project root
C13_Witness ==
    /\ lastOp = "name"
    /\ changes > 0
    /\ lastName.filePath = BAR_JS
    /\ BAR_JS \notin haste.hasteFS.files
    /\ lastName.name = NULL
    /\ lastName.relative = << <<"lib">>, <<"Bar", "js">> >>

\* the directories above a path, its own directory first: /r/lib, /r, / for
\* /r/lib/Bar.js; lib, . for lib/x.js; . for x.js
Ancestors(p) ==
    IF ParseRoot(p) = <<ROOT>> THEN {SubSeq(p, 1, k) : k \in 1..(Len(p) - 1)}
    ELSE {SubSeq(p, 1, k) : k \in 0..(Len(p) - 1)}

\* C12 as stated: _getClosestPackage returns the package.json of the nearest
\* directory above the path that has one in the snapshot, and null only when
\* no directory above the path has one.
C12_NearestManifest ==
    (lastOp = "closest" /\ ~closest.running) =>
        LET having == {d \in Ancestors(closest.filePath) :
                         Join(d, PACKAGE_JSON) \in haste.hasteFS.files}
        IN  /\ closest.result = NULL <=> having = {}
            /\ having # {} =>
                  \E d \in having :
                      /\ \A e \in having : Len(e) <= Len(d)
                      /\ closest.result = Join(d, PACKAGE_JSON)

\* C19: the loop of _getClosestPackage ends for every path, absolute,
\* relative or a bare file name: a call in progress always comes to its
\* return, after no more iterations than the path has directories above it.
C19_WalkTerminates ==
    /\ [](closest.steps <= Cardinality(Ancestors(closest.filePath)))
    /\ (closest.running ~> ~closest.running)

\* the walk from /r/lib/Bar.js ended after /r/lib and /r, with no manifest
\* found in either
C19_Witness ==
    /\ lastOp = "closest"
    /\ closest.filePath = BAR_JS
    /\ ~closest.running
    /\ closest.steps = 2
    /\ closest.result = NULL
    /\ closest.dir = <<ROOT>>

====
